---- MODULE Spec2Model ----
(***************************************************************************)
(* Model of src/src/components/AirQualityIndex.jsx: the AirQualityIndex    *)
(* React component.  Its state hooks are the variables, its handlers and   *)
(* the continuations of its awaited requests are the actions, and its pure *)
(* helpers (calculateDistance, the station ranking inside fetchAQI,        *)
(* processStationData, weightedAverage, prepareChartData) are operators.   *)
(*                                                                         *)
(* JavaScript values that may be null or undefined are tagged records, so  *)
(* that "absent" and "0" are different values: Num(0) # undefined # null.  *)
(* Latitudes and longitudes are integers in tenths of a degree; distances  *)
(* are the values calculateDistance returns, in millimetres.               *)
(***************************************************************************)
EXTENDS Integers, Sequences, FiniteSets, TLC

VARIABLES
    \* useState hooks of AirQualityIndex (lines 39-44)
    selectedLocation, aqi, loading, error, mapKey, historicalData,
    \* the fetchAQI invocations started so far, each with its position
    inv,
    \* which invocation made the last call of setAqi and of setHistoricalData
    \* (0: none)
    aqiSetBy, historicalSetBy,
    \* whether some invocation started while another was in flight
    overlapped,
    \* the loadOptions calls made so far, and the GET requests sent to Nominatim
    calls, requests,
    \* station ranking of fetchAQI run on its own: origin, upstream list, result
    rankLocation, rankData, rankResult,
    \* processStationData run on its own: payloads, ranked stations, result
    aggStations, aggOriginal, aggResult,
    \* prepareChartData run on its own: payload, result
    chartInput, chartResult

componentVars == <<selectedLocation, aqi, loading, error, mapKey, historicalData, inv,
                   aqiSetBy, historicalSetBy, overlapped>>
geocoderVars  == <<calls, requests>>
rankVars      == <<rankLocation, rankData, rankResult>>
aggVars       == <<aggStations, aggOriginal, aggResult>>
chartVars     == <<chartInput, chartResult>>
vars == <<componentVars, geocoderVars, rankVars, aggVars, chartVars>>

(***************************************************************************)
(* Bounds of the model.                                                    *)
(***************************************************************************)
\* how many times the user picks a location
MaxSelections == 2
\* how many times loadOptions is called
MaxCalls == 2
\* longest search text typed
MaxQueryLen == 2
\* longest station list the bounds API returns to the ranking
MaxCandidates == 4
\* most data points in one per-day forecast series
MaxDays == 2

(***************************************************************************)
(* JavaScript values.                                                      *)
(***************************************************************************)
null      == [t |-> "null"]
undefined == [t |-> "undefined"]
Num(n)    == [t |-> "number", v |-> n]
Str(s)    == [t |-> "string", v |-> s]
\* an array, and an object as its own keys in enumeration order, each an
\* Entry with its value
Arr(s)    == [t |-> "array", items |-> s]
Obj(s)    == [t |-> "object", entries |-> s]

\* state the component never touches in a given specification
NotRun == [t |-> "not run"]

\* JavaScript truthiness of the values the component tests (`x &&`, `!x`)
Truthy(x) == x # null /\ x # undefined /\ x # Num(0) /\ x # Str("")

\* Array.prototype.slice(from, to) with 0 <= from <= to, zero-based, end excluded
Slice(s, from, to) ==
    LET hi == IF to < Len(s) THEN to ELSE Len(s)
    IN  IF from >= hi THEN <<>> ELSE SubSeq(s, from + 1, hi)

\* all sequences over S of length lo..hi
SeqsOf(S, lo, hi) == UNION {[1..n -> S] : n \in lo..hi}

\* all sequences of distinct elements of S of length lo..hi
DistinctSeqsOf(S, lo, hi) ==
    {s \in SeqsOf(S, lo, hi) : \A i, j \in DOMAIN s : i # j => s[i] # s[j]}

(***************************************************************************)
(* calculateDistance (lines 149-160).  The haversine formula is evaluated  *)
(* in IEEE doubles; here it is tabulated on the grid of coordinates the    *)
(* model uses (latitude, longitude in {-0.1, 0, 0.1} degrees), each entry  *)
(* being the double the formula yields, in millimetres.  The formula reads *)
(* lon1 and lon2 only through sin^2((lon2-lon1)/2), so an entry is indexed *)
(* by lat1, lat2 and |lon2 - lon1|.  On this grid two entries are equal    *)
(* exactly when the doubles are equal, and ordered as the doubles are.     *)
(***************************************************************************)
Abs(n) == IF n < 0 THEN -n ELSE n

HaversineMm(lat1, lat2, dLon) ==
    LET sameLat == lat1 = lat2
        apart   == Abs(lat2 - lat1)
    IN  CASE dLon = 0 /\ apart = 0 -> 0
          [] dLon = 0 /\ apart = 1 -> 11119493
          [] dLon = 0 /\ apart = 2 -> 22238985
          [] dLon = 1 /\ sameLat /\ lat1 = 0 -> 11119493
          [] dLon = 1 /\ sameLat /\ lat1 # 0 -> 11119476
          [] dLon = 1 /\ apart = 1 -> 15725333
          [] dLon = 1 /\ apart = 2 -> 24863939
          [] dLon = 2 /\ sameLat /\ lat1 = 0 -> 22238985
          [] dLon = 2 /\ sameLat /\ lat1 # 0 -> 22238951
          [] dLon = 2 /\ apart = 1 -> 24863931
          [] dLon = 2 /\ apart = 2 -> 31450667

calculateDistance(lat1, lon1, lat2, lon2) ==
    HaversineMm(lat1, lat2, Abs(lon2 - lon1))

(***************************************************************************)
(* The upstream services, as far as the component reads them.              *)
(***************************************************************************)
\* options the user can pick: {value: {lat, lng}, label} (lines 62-67)
LocA == [value |-> [lat |-> 0, lng |-> 0], label |-> "A"]
LocB == [value |-> [lat |-> 1, lng |-> 0], label |-> "B"]
Locations == {LocA, LocB}

\* station summaries of the map/bounds API: {uid, lat, lon}
Summary(uid, lat, lon) == [uid |-> uid, lat |-> lat, lon |-> lon]
S1 == Summary("u1", 1, 0)
S2 == Summary("u2", -1, 0)
S3 == Summary("u3", 0, 1)
S4 == Summary("u4", 1, 1)
S5 == Summary("u5", 0, 0)
StationPool == {S1, S2, S3, S4, S5}

Pollutants == {"pm25", "pm10", "o3", "no2", "so2", "co"}

\* a calendar day as the feed API writes it ("2024-01-05")
Day(d) == [year |-> 2024, month |-> "Jan", day |-> d]

\* one per-day forecast series: n points from day `start` on
Series(start, n) ==
    Arr([i \in 1..n |-> [day |-> Day(start + i - 1), avg |-> 10 * start + i]])

\* the feed API's payload (response.data.data) for one station
Payload(name, a, iaqi, iso, forecast) ==
    [aqi |-> a, iaqi |-> iaqi, time |-> [iso |-> iso], city |-> [name |-> name],
     forecast |-> forecast]

\* one key of an Obj, with its value
Entry(key, value) == [key |-> key, value |-> value]

Feed(uid) ==
    CASE uid = "u1" -> Payload("North", 40, [pm25 |-> [v |-> 12], o3 |-> [v |-> 0]], "T1",
                               [daily |-> Obj(<<Entry("o3", Series(1, 2)), Entry("pm25", Series(1, 2))>>)])
      [] uid = "u2" -> Payload("South", 60, [pm25 |-> [v |-> 15]], "T2",
                               [daily |-> Obj(<<Entry("pm10", Series(1, 1))>>)])
      [] uid = "u3" -> Payload("East", 151, [pm10 |-> [v |-> 7]], "T3",
                               [daily |-> Obj(<<Entry("uvi", Series(2, 1))>>)])
      [] uid = "u4" -> Payload("Corner", 50, [co |-> [v |-> 1]], "T4", undefined)
      [] uid = "u5" -> Payload("Centre", 150, [n \in {} |-> 0], "T5", undefined)

\* an axios response: the body is under .data
AxiosResponse(body) == [data |-> body]

(***************************************************************************)
(* Station ranking inside fetchAQI (lines 104-116).                        *)
(***************************************************************************)
\* .slice(0, 3)
Limit == 3

\* the comparator of .sort (line 115)
CompareDistance(a, b) == a.distance - b.distance

\* .map(station => ({...station, distance: calculateDistance(...)})) (lines 106-114)
WithDistance(location, station) ==
    [uid |-> station.uid, lat |-> station.lat, lon |-> station.lon,
     distance |-> calculateDistance(location.value.lat, location.value.lng,
                                    station.lat, station.lon)]

\* a variant of InsertSorted that puts x before the elements it ties with
InsertSortedBeforeTies(sorted, x) ==
    LET before == {j \in 1..Len(sorted) : CompareDistance(sorted[j], x) < 0}
        n == Cardinality(before)
    IN  SubSeq(sorted, 1, n) \o <<x>> \o SubSeq(sorted, n + 1, Len(sorted))

\* Array.prototype.sort is stable: x goes after every element that the
\* comparator does not put after it
InsertSorted(sorted, x) ==
    LET before == {j \in 1..Len(sorted) : CompareDistance(sorted[j], x) <= 0}
        n == Cardinality(before)
    IN  SubSeq(sorted, 1, n) \o <<x>> \o SubSeq(sorted, n + 1, Len(sorted))

RECURSIVE SortByDistance(_)
SortByDistance(s) ==
    IF Len(s) = 0 THEN <<>>
    ELSE InsertSorted(SortByDistance(SubSeq(s, 1, Len(s) - 1)), s[Len(s)])

\* lines 105-116: map, sort, slice
NearestStations(location, data) ==
    Slice(SortByDistance([i \in 1..Len(data) |-> WithDistance(location, data[i])]), 0, Limit)

(***************************************************************************)
(* weightedAverage (lines 182-186) and processStationData (lines 162-180). *)
(***************************************************************************)
\* a variant of MathRound that truncates
MathFloor(sum, n) == sum \div n

\* Math.round(sum / n) for n > 0: the nearest integer, halves upwards
MathRound(sum, n) == (2 * sum + n) \div (2 * n)

\* values.reduce((a, b) => a + b, 0)
RECURSIVE SumOf(_)
SumOf(values) ==
    IF Len(values) = 0 THEN 0 ELSE values[1].v + SumOf(Tail(values))

\* a variant of weightedAverage that counts an undefined value as 0
weightedAverageZeroFill(values) ==
    LET filled == [i \in 1..Len(values) |->
                      IF values[i] = undefined THEN Num(0) ELSE values[i]]
    IN  IF Len(filled) = 0 THEN null
        ELSE Num(MathRound(SumOf(filled), Len(filled)))

weightedAverage(values) ==
    LET validValues == SelectSeq(values, LAMBDA v : v # undefined)
    IN  IF Len(validValues) = 0 THEN null
        ELSE Num(MathRound(SumOf(validValues), Len(validValues)))

\* s.iaqi.<code>?.v
IaqiValue(s, code) ==
    IF code \in DOMAIN s.iaqi THEN Num(s.iaqi[code].v) ELSE undefined

\* stations.map(s => s.iaqi.<code>?.v)
IaqiValues(stations, code) == [i \in 1..Len(stations) |-> IaqiValue(stations[i], code)]

processStationData(stations, originalStations) ==
    [aqi |-> weightedAverage([i \in 1..Len(stations) |-> Num(stations[i].aqi)]),
     pollutants |->
        [pm25 |-> weightedAverage(IaqiValues(stations, "pm25")),
         pm10 |-> weightedAverage(IaqiValues(stations, "pm10")),
         o3   |-> weightedAverage(IaqiValues(stations, "o3")),
         no2  |-> weightedAverage(IaqiValues(stations, "no2")),
         so2  |-> weightedAverage(IaqiValues(stations, "so2")),
         co   |-> weightedAverage(IaqiValues(stations, "co"))],
     time |-> stations[1].time.iso,
     stations |-> [index \in 1..Len(stations) |->
                      [name |-> stations[index].city.name,
                       aqi |-> stations[index].aqi,
                       distance |-> originalStations[index].distance]]]

(***************************************************************************)
(* prepareChartData (lines 216-266).                                       *)
(***************************************************************************)
\* Object.keys(obj)
ObjectKeys(obj) == [i \in 1..Len(obj.entries) |-> obj.entries[i].key]

\* obj[key]: undefined when obj has no such key
Prop(obj, key) ==
    IF \E i \in 1..Len(obj.entries) : obj.entries[i].key = key
    THEN obj.entries[CHOOSE i \in 1..Len(obj.entries) : obj.entries[i].key = key].value
    ELSE undefined

\* x?.length > 0
HasData(x) == x # undefined /\ Len(x.items) > 0

\* new Date(d.day).toLocaleDateString([], {month: 'short', day: 'numeric'}):
\* the year is dropped
FormatDate(day) == [month |-> day.month, day |-> day.day]

\* one chart dataset (lines 223-229; the colours are left out)
Dataset(label, series) ==
    [label |-> label, data |-> [i \in 1..Len(series.items) |-> series.items[i].avg]]

prepareChartData(data) ==
    IF ~Truthy(data) \/ ~Truthy(data.forecast) \/ ~Truthy(data.forecast.daily) THEN null
    ELSE
      LET daily == data.forecast.daily
          datasets ==
              (IF HasData(Prop(daily, "pm25"))
                 THEN <<Dataset("PM2.5", Prop(daily, "pm25"))>> ELSE <<>>)
              \o (IF HasData(Prop(daily, "pm10"))
                    THEN <<Dataset("PM10", Prop(daily, "pm10"))>> ELSE <<>>)
              \o (IF HasData(Prop(daily, "o3"))
                    THEN <<Dataset("O3", Prop(daily, "o3"))>> ELSE <<>>)
      IN  IF Len(datasets) = 0 THEN null
          ELSE
            LET first == Prop(daily, ObjectKeys(daily)[1])
                dates == [i \in 1..Len(first.items) |-> FormatDate(first.items[i].day)]
            IN  [labels |-> dates, datasets |-> datasets]

(***************************************************************************)
(* fetchAQI (lines 88-147), one invocation per selected location.  An      *)
(* invocation is a record: its argument, the await it is suspended at, the *)
(* ranked stations, the detail requests still in flight, the responses     *)
(* Promise.all has collected, and a log of what the invocation has done.   *)
(***************************************************************************)
DefaultError == "Failed to fetch AQI data. Please try again later."
NoStationsError == "No AQI stations found near this location"

\* what a rejected request is rejected with: err.response?.data?.message is
\* either absent (network failure) or a message of the service
RequestErrors == {[response |-> undefined],
                  [response |-> [data |-> [message |-> "Invalid key"]]]}

\* err.response?.data?.message || 'Failed to fetch ...' (lines 140-143)
ErrorMessage(err) ==
    IF err.response = undefined THEN DefaultError ELSE err.response.data.message

\* the bodies the map/bounds API may answer with (stationsResponse.data)
BoundsBodies ==
    {[status |-> "error", data |-> undefined],
     [status |-> "ok", data |-> Arr(<<>>)],
     [status |-> "ok", data |-> Arr(<<S2>>)],
     [status |-> "ok", data |-> Arr(<<S3, S2, S4, S1>>)]}

NewInvocation(location) ==
    [location |-> location, pc |-> "bounds", stations |-> <<>>, waiting |-> {},
     stationDetails |-> <<>>,
     \* the log: a response overtook that of a nearer station; a detail request
     \* failed, after how many answers; the historical request failed; how many
     \* payloads processStationData was given; what setAqi was called with;
     \* whether setError was called with a message
     outOfOrder |-> FALSE, detailFailed |-> FALSE, answered |-> 0,
     histFailed |-> FALSE, processed |-> 0, setAqiWith |-> null,
     setErrorCalled |-> FALSE]

InFlight == {i \in 1..Len(inv) : inv[i].pc # "done"}

\* handleLocationChange (lines 194-197) and the effect on [selectedLocation]
\* (lines 188-192), which React runs before the next event when the
\* selection changed: fetchAQI starts, up to its first await (lines 89-97)
HandleLocationChange(newLocation) ==
    /\ mapKey < MaxSelections
    /\ selectedLocation' = newLocation
    /\ mapKey' = mapKey + 1
    /\ IF newLocation # selectedLocation
         THEN /\ loading' = TRUE
              /\ error' = null
              /\ inv' = Append(inv, NewInvocation(newLocation))
              /\ overlapped' = (overlapped \/ InFlight # {})
         ELSE UNCHANGED <<loading, error, inv, overlapped>>
    /\ UNCHANGED <<aqi, historicalData, aqiSetBy, historicalSetBy>>

\* the bounds request is rejected: catch and finally (lines 139-146)
BoundsReject(i, err) ==
    /\ inv[i].pc = "bounds"
    /\ error' = Str(ErrorMessage(err))
    /\ loading' = FALSE
    /\ inv' = [inv EXCEPT ![i].pc = "done", ![i].setErrorCalled = TRUE]
    /\ UNCHANGED <<selectedLocation, aqi, mapKey, historicalData, aqiSetBy, historicalSetBy,
                   overlapped>>

\* the bounds request is answered (lines 99-123): no stations, or the
\* ranking and one detail request per ranked station
BoundsResolve(i, body) ==
    /\ inv[i].pc = "bounds"
    /\ IF ~Truthy(body.data) \/ Len(body.data.items) = 0
         THEN /\ error' = Str(NoStationsError)
              /\ loading' = FALSE
              /\ inv' = [inv EXCEPT ![i].pc = "done",
                                    ![i].setErrorCalled = TRUE]
         ELSE LET stations == NearestStations(inv[i].location, body.data.items)
              IN  /\ inv' = [inv EXCEPT ![i].pc = "details",
                                        ![i].stations = stations,
                                        ![i].waiting = 1..Len(stations),
                                        ![i].stationDetails =
                                            [k \in 1..Len(stations) |-> null]]
                  /\ UNCHANGED <<error, loading>>
    /\ UNCHANGED <<selectedLocation, aqi, mapKey, historicalData, aqiSetBy, historicalSetBy,
                   overlapped>>

\* a variant of StoreDetail that keeps the responses in the order they arrive
StoreDetailOnArrival(details, k, response) ==
    LET free == CHOOSE j \in 1..Len(details) :
                    /\ details[j] = null
                    /\ \A h \in 1..(j - 1) : details[h] # null
    IN  [details EXCEPT ![free] = response]

\* Promise.all (line 119) keeps the value of the k-th promise at index k
StoreDetail(details, k, response) == [details EXCEPT ![k] = response]

\* the detail request of the k-th ranked station is answered; with the last
\* one Promise.all fulfils and fetchAQI goes on to its next await
\* (lines 125-134)
DetailResolve(i, k) ==
    /\ inv[i].pc = "details"
    /\ k \in inv[i].waiting
    /\ LET response == AxiosResponse([status |-> "ok",
                                      data |-> Feed(inv[i].stations[k].uid)])
           stationDetails == StoreDetail(inv[i].stationDetails, k, response)
           waiting == inv[i].waiting \ {k}
           outOfOrder == inv[i].outOfOrder \/ \E j \in waiting : j < k
       IN  IF waiting # {}
             THEN /\ inv' = [inv EXCEPT ![i].stationDetails = stationDetails,
                                        ![i].waiting = waiting,
                                        ![i].outOfOrder = outOfOrder]
                  /\ UNCHANGED <<aqi, aqiSetBy>>
             ELSE LET aggregatedData ==
                          processStationData(
                              [j \in 1..Len(stationDetails) |-> stationDetails[j].data.data],
                              inv[i].stations)
                  IN  /\ aqi' = aggregatedData
                      /\ aqiSetBy' = i
                      /\ inv' = [inv EXCEPT ![i].stationDetails = stationDetails,
                                            ![i].waiting = waiting,
                                            ![i].outOfOrder = outOfOrder,
                                            ![i].processed = Len(stationDetails),
                                            ![i].setAqiWith = aggregatedData,
                                            ![i].pc = "historical"]
    /\ UNCHANGED <<selectedLocation, loading, error, mapKey, historicalData, historicalSetBy,
                   overlapped>>

\* a variant of DetailReject that aggregates the stations answered so far
DetailRejectPartial(i, k, err) ==
    /\ inv[i].pc = "details"
    /\ k \in inv[i].waiting
    /\ LET got == {j \in 1..Len(inv[i].stations) : inv[i].stationDetails[j] # null}
           pick == SelectSeq([j \in 1..Len(inv[i].stations) |-> j], LAMBDA j : j \in got)
           aggregatedData ==
               processStationData(
                   [j \in 1..Len(pick) |-> inv[i].stationDetails[pick[j]].data.data],
                   [j \in 1..Len(pick) |-> inv[i].stations[pick[j]]])
       IN  IF got = {}
             THEN /\ error' = Str(ErrorMessage(err))
                  /\ loading' = FALSE
                  /\ inv' = [inv EXCEPT ![i].pc = "done",
                                        ![i].waiting = {},
                                        ![i].stationDetails = <<>>,
                                        ![i].outOfOrder = FALSE,
                                        ![i].detailFailed = TRUE,
                                        ![i].setErrorCalled = TRUE]
                  /\ UNCHANGED <<aqi, aqiSetBy>>
             ELSE /\ aqi' = aggregatedData
                  /\ aqiSetBy' = i
                  /\ inv' = [inv EXCEPT ![i].pc = "historical",
                                        ![i].waiting = {},
                                        ![i].answered = Len(pick),
                                        ![i].detailFailed = TRUE,
                                        ![i].processed = Len(pick),
                                        ![i].setAqiWith = aggregatedData]
                  /\ UNCHANGED <<error, loading>>
    /\ UNCHANGED <<selectedLocation, mapKey, historicalData, historicalSetBy, overlapped>>

\* one detail request is rejected: Promise.all rejects at once and control
\* passes to catch and finally (lines 139-146); what the other requests
\* answer later reaches nobody, so they are no longer tracked
DetailReject(i, k, err) ==
    /\ inv[i].pc = "details"
    /\ k \in inv[i].waiting
    /\ error' = Str(ErrorMessage(err))
    /\ loading' = FALSE
    /\ inv' = [inv EXCEPT ![i].pc = "done",
                          ![i].waiting = {},
                          ![i].stationDetails = <<>>,
                          ![i].outOfOrder = FALSE,
                          ![i].answered = Len(inv[i].stations) - Cardinality(inv[i].waiting),
                          ![i].detailFailed = TRUE,
                          ![i].setErrorCalled = TRUE]
    /\ UNCHANGED <<selectedLocation, aqi, mapKey, historicalData, aqiSetBy, historicalSetBy,
                   overlapped>>

\* fetchHistoricalData (lines 199-205) is answered: lines 134-135, finally
HistoricalResolve(i) ==
    /\ inv[i].pc = "historical"
    /\ historicalData' = AxiosResponse([status |-> "ok",
                                        data |-> Feed(inv[i].stations[1].uid)]).data.data
    /\ historicalSetBy' = i
    /\ loading' = FALSE
    /\ inv' = [inv EXCEPT ![i].pc = "done"]
    /\ UNCHANGED <<selectedLocation, aqi, error, mapKey, aqiSetBy, overlapped>>

\* fetchHistoricalData is rejected: the inner catch logs it (lines 136-138),
\* finally
HistoricalReject(i, err) ==
    /\ inv[i].pc = "historical"
    /\ loading' = FALSE
    /\ inv' = [inv EXCEPT ![i].pc = "done", ![i].histFailed = TRUE]
    /\ UNCHANGED <<selectedLocation, aqi, error, mapKey, historicalData, aqiSetBy,
                   historicalSetBy, overlapped>>

\* what the component renders (lines 335-386)
PanelShown == Truthy(aqi) /\ ~loading /\ ~Truthy(error)
ChartSectionShown == PanelShown /\ Truthy(historicalData)
ChartShown == ChartSectionShown /\ Truthy(prepareChartData(historicalData))

othersIdle == <<geocoderVars, rankVars, aggVars, chartVars>>

Init ==
    /\ selectedLocation = null
    /\ aqi = null
    /\ loading = FALSE
    /\ error = null
    /\ mapKey = 0
    /\ historicalData = null
    /\ inv = <<>>
    /\ aqiSetBy = 0 /\ historicalSetBy = 0 /\ overlapped = FALSE
    /\ calls = <<>> /\ requests = <<>>
    /\ rankLocation = NotRun /\ rankData = NotRun /\ rankResult = NotRun
    /\ aggStations = NotRun /\ aggOriginal = NotRun /\ aggResult = NotRun
    /\ chartInput = NotRun /\ chartResult = NotRun

Next ==
    \/ \E newLocation \in Locations :
          HandleLocationChange(newLocation) /\ UNCHANGED othersIdle
    \/ \E i \in 1..Len(inv), err \in RequestErrors :
          BoundsReject(i, err) /\ UNCHANGED othersIdle
    \/ \E i \in 1..Len(inv), body \in BoundsBodies :
          BoundsResolve(i, body) /\ UNCHANGED othersIdle
    \/ \E i \in 1..Len(inv), k \in 1..Limit :
          DetailResolve(i, k) /\ UNCHANGED othersIdle
    \/ \E i \in 1..Len(inv), k \in 1..Limit, err \in RequestErrors :
          DetailReject(i, k, err) /\ UNCHANGED othersIdle
    \/ \E i \in 1..Len(inv) :
          HistoricalResolve(i) /\ UNCHANGED othersIdle
    \/ \E i \in 1..Len(inv), err \in RequestErrors :
          HistoricalReject(i, err) /\ UNCHANGED othersIdle

Spec == Init /\ [][Next]_vars

(***************************************************************************)
(* The station ranking on its own: every origin, every upstream list of up *)
(* to MaxCandidates different stations, in every order.                    *)
(***************************************************************************)
idleComponent ==
    /\ selectedLocation = null /\ aqi = null /\ loading = FALSE /\ error = null
    /\ mapKey = 0 /\ historicalData = null /\ inv = <<>>
    /\ aqiSetBy = 0 /\ historicalSetBy = 0 /\ overlapped = FALSE

RankInit ==
    /\ idleComponent
    /\ calls = <<>> /\ requests = <<>>
    /\ rankLocation \in Locations
    /\ rankData \in DistinctSeqsOf(StationPool, 1, MaxCandidates)
    /\ rankResult = NotRun
    /\ aggStations = NotRun /\ aggOriginal = NotRun /\ aggResult = NotRun
    /\ chartInput = NotRun /\ chartResult = NotRun

\* lines 105-116
RankStations ==
    /\ rankResult = NotRun
    /\ rankResult' = Arr(NearestStations(rankLocation, rankData))
    /\ UNCHANGED <<rankLocation, rankData, componentVars, geocoderVars, aggVars, chartVars>>

RankSpec == RankInit /\ [][RankStations]_vars

(***************************************************************************)
(* processStationData on its own: one to Limit payloads, each with one of  *)
(* the AQI values and one of the pollutant profiles below.                 *)
(***************************************************************************)
AqiValues == {50, 150, 151}

IaqiProfiles ==
    {[n \in {} |-> 0], [pm25 |-> [v |-> 0]]}
    \cup {[k \in {code} |-> [v |-> 3]] : code \in Pollutants}
    \cup {[k \in Pollutants |-> [v |-> 4]]}

AggPayloads ==
    {Payload("Somewhere", a, iaqi, "T0", undefined) : a \in AqiValues, iaqi \in IaqiProfiles}

AggInit ==
    /\ idleComponent
    /\ calls = <<>> /\ requests = <<>>
    /\ rankLocation = NotRun /\ rankData = NotRun /\ rankResult = NotRun
    /\ aggStations \in SeqsOf(AggPayloads, 1, Limit)
    /\ aggOriginal = Slice(NearestStations(LocA, <<S4, S5, S1>>), 0, Len(aggStations))
    /\ aggResult = NotRun
    /\ chartInput = NotRun /\ chartResult = NotRun

\* lines 126-129
Aggregate ==
    /\ aggResult = NotRun
    /\ aggResult' = processStationData(aggStations, aggOriginal)
    /\ UNCHANGED <<aggStations, aggOriginal, componentVars, geocoderVars, rankVars, chartVars>>

AggSpec == AggInit /\ [][Aggregate]_vars

(***************************************************************************)
(* prepareChartData on its own: no payload, no forecast, no daily section, *)
(* or a daily object of up to MaxKeys keys in any order, each with a       *)
(* series of 0..MaxDays points starting on one of two days.                *)
(***************************************************************************)
MaxKeys == 3

ForecastKeys == {"pm25", "pm10", "o3", "uvi"}

SeriesChoices == {Series(start, n) : start \in {1, 2}, n \in 0..MaxDays}

DailyObjects ==
    {Obj([i \in 1..Len(ks) |-> Entry(ks[i], f[i])]) :
        ks \in DistinctSeqsOf(ForecastKeys, 0, MaxKeys),
        f \in [1..MaxKeys -> SeriesChoices]}

ChartInputs ==
    {null, [forecast |-> undefined], [forecast |-> [daily |-> undefined]]}
    \cup {[forecast |-> [daily |-> d]] : d \in DailyObjects}

ChartInit ==
    /\ idleComponent
    /\ calls = <<>> /\ requests = <<>>
    /\ rankLocation = NotRun /\ rankData = NotRun /\ rankResult = NotRun
    /\ aggStations = NotRun /\ aggOriginal = NotRun /\ aggResult = NotRun
    /\ chartInput \in ChartInputs
    /\ chartResult = NotRun

\* lines 373-375
PrepareChart ==
    /\ chartResult = NotRun
    /\ chartResult' = prepareChartData(chartInput)
    /\ UNCHANGED <<chartInput, componentVars, geocoderVars, rankVars, aggVars>>

ChartSpec == ChartInit /\ [][PrepareChart]_vars

(***************************************************************************)
(* loadOptions (lines 46-77).  A search text is a sequence of characters;  *)
(* a call is a record of its argument, whether it is suspended at the      *)
(* await of line 50, whether it sent a request, and what it returned.      *)
(***************************************************************************)
Characters == {" ", "a"}
Queries == SeqsOf(Characters, 0, MaxQueryLen)

\* !inputValue: of all strings only the empty one is falsy
IsFalsy(inputValue) == Len(inputValue) = 0

\* encodeURIComponent (line 51), on the characters of the model
EncodeURIComponent(inputValue) ==
    [i \in 1..Len(inputValue) |-> IF inputValue[i] = " " THEN "%20" ELSE inputValue[i]]

\* parseFloat on the coordinate strings of the model, to tenths of a degree
ParseFloat(str) == CASE str = "0.0" -> 0 [] str = "0.1" -> 1 [] str = "-0.1" -> -1

Place(n) ==
    [lat |-> IF n % 2 = 0 THEN "0.0" ELSE "0.1", lon |-> IF n > 3 THEN "-0.1" ELSE "0.0",
     display_name |-> <<"Place", n>>]

\* the bodies Nominatim may answer with (response.data)
GeoBodies == {undefined, Arr(<<>>), Arr(<<Place(1)>>), Arr([n \in 1..6 |-> Place(n)])}

NoLocationsFound == <<[label |-> "No locations found", value |-> null, isDisabled |-> TRUE]>>
ErrorLoadingLocations ==
    <<[label |-> "Error loading locations", value |-> null, isDisabled |-> TRUE]>>

\* a variant of LoadOptions without the guard of line 47
LoadOptionsAlwaysFetch(inputValue) ==
    /\ Len(calls) < MaxCalls
    /\ calls' = Append(calls, [inputValue |-> inputValue, pc |-> "await",
                               requested |-> TRUE, result |-> undefined])
    /\ requests' = Append(requests, EncodeURIComponent(inputValue))

\* loadOptions is called: lines 47-52
LoadOptions(inputValue) ==
    /\ Len(calls) < MaxCalls
    /\ IF IsFalsy(inputValue)
         THEN /\ calls' = Append(calls, [inputValue |-> inputValue, pc |-> "returned",
                                         requested |-> FALSE, result |-> Arr(<<>>)])
              /\ UNCHANGED requests
         ELSE /\ calls' = Append(calls, [inputValue |-> inputValue, pc |-> "await",
                                         requested |-> TRUE, result |-> undefined])
              /\ requests' = Append(requests, EncodeURIComponent(inputValue))

\* the request is answered: lines 54-68
GeoResolve(c, body) ==
    /\ calls[c].pc = "await"
    /\ calls' = [calls EXCEPT
          ![c].pc = "returned",
          ![c].result =
              IF ~Truthy(body) \/ Len(body.items) = 0
                THEN Arr(NoLocationsFound)
                ELSE Arr(Slice([i \in 1..Len(body.items) |->
                                   [value |-> [lat |-> ParseFloat(body.items[i].lat),
                                               lng |-> ParseFloat(body.items[i].lon)],
                                    label |-> body.items[i].display_name]],
                               0, 5))]
    /\ UNCHANGED requests

\* the request is rejected: lines 69-76
GeoReject(c) ==
    /\ calls[c].pc = "await"
    /\ calls' = [calls EXCEPT ![c].pc = "returned",
                              ![c].result = Arr(ErrorLoadingLocations)]
    /\ UNCHANGED requests

geocoderIdle == <<componentVars, rankVars, aggVars, chartVars>>

GeoNext ==
    \/ \E inputValue \in Queries : LoadOptions(inputValue) /\ UNCHANGED geocoderIdle
    \/ \E c \in 1..Len(calls), body \in GeoBodies :
          GeoResolve(c, body) /\ UNCHANGED geocoderIdle
    \/ \E c \in 1..Len(calls) : GeoReject(c) /\ UNCHANGED geocoderIdle

GeoSpec == Init /\ [][GeoNext]_vars

(***************************************************************************)
(* Properties.                                                             *)
(***************************************************************************)

\* C1: an invocation of fetchAQI one of whose detail requests failed has
\* finished without giving processStationData any payload and without
\* calling setAqi, and has called setError with a message.
C1_FailFast ==
    \A i \in 1..Len(inv) :
        inv[i].detailFailed =>
            /\ inv[i].pc = "done"
            /\ inv[i].processed = 0
            /\ inv[i].setAqiWith = null
            /\ inv[i].setErrorCalled

\* a detail request failed after two of three stations had answered
C1_Witness ==
    \E i \in 1..Len(inv) :
        inv[i].detailFailed /\ Len(inv[i].stations) = 3 /\ inv[i].answered = 2

\* the position of the station with this uid in the upstream list
UpstreamIndex(data, uid) == CHOOSE j \in 1..Len(data) : data[j].uid = uid

\* C2: the ranking has at most 3 entries, each a station of the upstream list
\* with its distance from the origin, in non-decreasing distance, and entries
\* at equal distance are in the order the upstream list has them.
C2_RankedNearestFirst ==
    rankResult # NotRun =>
        LET r == rankResult.items
        IN  /\ Len(r) <= 3
            /\ \A i \in 1..Len(r) :
                  /\ \E j \in 1..Len(rankData) : rankData[j].uid = r[i].uid
                  /\ r[i].distance =
                        calculateDistance(rankLocation.value.lat, rankLocation.value.lng,
                                          r[i].lat, r[i].lon)
            /\ \A i, j \in 1..Len(r) :
                  i < j =>
                      /\ r[i].distance <= r[j].distance
                      /\ r[i].distance = r[j].distance =>
                            UpstreamIndex(rankData, r[i].uid) < UpstreamIndex(rankData, r[j].uid)

\* four candidates, and two of the three ranked ones tie
C2_Witness ==
    /\ rankResult # NotRun
    /\ Len(rankData) = 4
    /\ Len(rankResult.items) = 3
    /\ \E i, j \in 1..3 : i < j /\ rankResult.items[i].distance = rankResult.items[j].distance

\* the stations of a payload sequence that report a pollutant, and the sum of
\* what they report
Reporting(stations, code) == {i \in 1..Len(stations) : code \in DOMAIN stations[i].iaqi}

RECURSIVE ReportedSum(_, _, _)
ReportedSum(stations, code, among) ==
    IF among = {} THEN 0
    ELSE LET i == CHOOSE x \in among : TRUE
         IN  stations[i].iaqi[code].v + ReportedSum(stations, code, among \ {i})

\* n is a nearest integer to sum / count
IsNearest(n, sum, count) == Abs(2 * sum - 2 * count * n) <= count

\* C3: each composite pollutant value is null when no station reports the
\* pollutant, and otherwise the mean over the reporting stations alone,
\* rounded to the nearest integer.
C3_PollutantsOverReporting ==
    aggResult # NotRun =>
        \A code \in Pollutants :
            LET among == Reporting(aggStations, code)
                value == aggResult.pollutants[code]
            IN  IF among = {}
                  THEN value = null /\ value # Num(0)
                  ELSE /\ value.t = "number"
                       /\ IsNearest(value.v, ReportedSum(aggStations, code, among),
                                    Cardinality(among))

\* three stations: nobody reports co, and only one reports pm25, as 3
C3_Witness ==
    /\ aggResult # NotRun
    /\ Len(aggStations) = 3
    /\ Reporting(aggStations, "co") = {}
    /\ Cardinality(Reporting(aggStations, "pm25")) = 1
    /\ aggResult.pollutants.pm25 = Num(3)
    /\ aggResult.pollutants.co = null

\* no request has been sent for a call that returned the empty sequence
\* (every call that sends one is marked, and every request is of a marked call)
RequestsMatchCalls ==
    Len(requests) = Cardinality({c \in 1..Len(calls) : calls[c].requested})

IsBlank(inputValue) == \A i \in 1..Len(inputValue) : inputValue[i] = " "

\* C4 as stated: a call of loadOptions with an empty or whitespace-only text
\* has returned the empty sequence and sent no request.
C4_BlankQueryNoRequest ==
    \A c \in 1..Len(calls) :
        IsBlank(calls[c].inputValue) =>
            /\ calls[c].pc = "returned"
            /\ calls[c].result = Arr(<<>>)
            /\ ~calls[c].requested

\* C4 amended: a call of loadOptions with the empty text has returned the
\* empty sequence and sent no request; every other call, whitespace-only
\* ones included, has sent one request, with the text percent-encoded.
C4_EmptyQueryNoRequest ==
    /\ RequestsMatchCalls
    /\ \A c \in 1..Len(calls) :
          IF Len(calls[c].inputValue) = 0
            THEN /\ calls[c].pc = "returned"
                 /\ calls[c].result = Arr(<<>>)
                 /\ ~calls[c].requested
            ELSE calls[c].requested
    /\ \A r \in 1..Len(requests) : Len(requests[r]) > 0

\* the empty text after a search that sent a request
C4_Witness ==
    /\ Len(calls) = 2
    /\ calls[1].requested
    /\ Len(calls[2].inputValue) = 0
    /\ calls[2].result = Arr(<<>>)
    /\ Len(requests) = 1

\* C5 as stated, for selections made one after the other (no invocation
\* started while another was in flight): the step in which the historical
\* request of the latest invocation fails leaves error unset and the reading
\* on display, and after it no forecast chart is rendered.
C5_NoChartAfterHistoricalFailure ==
    [][\A i \in 1..Len(inv) :
          (/\ i = Len(inv)
           /\ ~overlapped
           /\ inv[i].pc = "historical"
           /\ inv'[i].pc = "done"
           /\ inv'[i].histFailed)
          => /\ error' = null
             /\ aqi' = aqi
             /\ PanelShown'
             /\ ~ChartShown']_vars

\* the first key of the daily object that is pm25, pm10 or o3 and has data
RecognizedKeys == {"pm25", "pm10", "o3"}

FirstRecognizedWithData(daily) ==
    LET ok == {i \in 1..Len(daily.entries) :
                  /\ daily.entries[i].key \in RecognizedKeys
                  /\ HasData(daily.entries[i].value)}
    IN  daily.entries[CHOOSE i \in ok : \A j \in ok : i <= j]

\* C6 as stated: when prepareChartData returns a series, its labels are the
\* formatted days of the first recognized pollutant that has data.
C6_LabelsFromFirstRecognized ==
    (chartResult # NotRun /\ chartResult # null) =>
        LET source == FirstRecognizedWithData(chartInput.forecast.daily).value.items
        IN  chartResult.labels = [i \in 1..Len(source) |-> FormatDate(source[i].day)]

\* C7: what an invocation calls setAqi with has one station entry per ranked
\* station, in ranked order, the k-th with the name and AQI the feed reports
\* for the k-th ranked station and with that station's distance from the
\* selected location; the distances do not decrease; and the time is the
\* one the feed reports for the first-ranked station.
C7_EntriesFollowRanking ==
    \A i \in 1..Len(inv) :
        inv[i].setAqiWith # null =>
            LET reading == inv[i].setAqiWith
                ranked == inv[i].stations
                origin == inv[i].location.value
            IN  /\ Len(reading.stations) = Len(ranked)
                /\ \A k \in 1..Len(ranked) :
                      /\ reading.stations[k].name = Feed(ranked[k].uid).city.name
                      /\ reading.stations[k].aqi = Feed(ranked[k].uid).aqi
                      /\ reading.stations[k].distance =
                            calculateDistance(origin.lat, origin.lng,
                                              ranked[k].lat, ranked[k].lon)
                /\ \A k \in 1..(Len(ranked) - 1) :
                      reading.stations[k].distance <= reading.stations[k + 1].distance
                /\ reading.time = Feed(ranked[1].uid).time.iso

\* three stations answered, a farther one before a nearer one
C7_Witness ==
    \E i \in 1..Len(inv) :
        /\ inv[i].setAqiWith # null
        /\ Len(inv[i].stations) = 3
        /\ inv[i].outOfOrder
        /\ aqi = inv[i].setAqiWith

RECURSIVE AqiSum(_)
AqiSum(stations) ==
    IF Len(stations) = 0 THEN 0 ELSE stations[1].aqi + AqiSum(Tail(stations))

\* C8: the composite aqi is an integer nearest to the mean of the AQI values
\* of all the stations; 50 and 150 give 100.
C8_AqiIsRoundedMean ==
    aggResult # NotRun =>
        /\ aggResult.aqi.t = "number"
        /\ IsNearest(aggResult.aqi.v, AqiSum(aggStations), Len(aggStations))
        /\ (Len(aggStations) = 2 /\ aggStations[1].aqi = 50 /\ aggStations[2].aqi = 150)
              => aggResult.aqi = Num(100)

\* the stations 50 and 150 of the example
C8_Witness ==
    /\ aggResult # NotRun
    /\ Len(aggStations) = 2
    /\ aggStations[1].aqi = 50
    /\ aggStations[2].aqi = 150
    /\ aggResult.aqi = Num(100)

\* C9 as stated, for the composite reading: once no invocation is in flight,
\* the reading on display was computed by an invocation for the selected
\* location.
C9_ReadingOfSelectedLocation ==
    (InFlight = {} /\ PanelShown) =>
        /\ aqiSetBy # 0
        /\ inv[aqiSetBy].location = selectedLocation

\* C10 as stated: loading is true while an invocation is in flight, so no
\* reading is on display then; and an invocation that has finished with
\* nothing else in flight leaves loading false.
C10_LoadingWhileInFlight ==
    /\ InFlight # {} => loading /\ ~PanelShown
    /\ (InFlight = {} /\ Len(inv) > 0) => ~loading

====
